---- MODULE Spec2Model ----
(***************************************************************************)
(* Clip-and-align worker (src/worker/worker.py).                           *)
(*                                                                         *)
(* Spec      the run of main(): one process, one request, stage by stage.  *)
(* FairSpec  the same run with the scheduler's guarantee that a runnable   *)
(*           statement is eventually executed.                             *)
(* UnitSpec  the pure functions (parse_aoi, normalize_bands, the transform *)
(*           update of apply_translation_and_write, the padding of         *)
(*           compute_translation) applied to inputs drawn from bounded     *)
(*           sets.                                                         *)
(*                                                                         *)
(* Numbers are exact integers: pixel values are 8-bit samples, transform   *)
(* coefficients and shifts are integers (the arithmetic of lines 144-150   *)
(* is +, -, * only, so the algebra is the same at any resolution).         *)
(***************************************************************************)
EXTENDS Integers, Sequences, FiniteSets, TLC

VARIABLES
    pc,             \* position of main()
    aoi_arg,        \* args.aoi, as its ';'-separated pieces, each '='-separated
    image_a,        \* the raster behind args.image_a
    image_b,        \* the raster behind args.image_b
    aoi,            \* result of parse_aoi
    A_clipped_arr, A_meta,
    B_clipped_arr, B_meta,
    shift,
    est_moving,     \* the moving_arr argument compute_translation received
    progress,       \* the "PROGRESS: n" tokens printed so far
    files,          \* the rasters completely written to out_dir, in order
    stage_log,      \* the stages entered so far, in order
    no_overlap,     \* the images whose clip found no overlap (ValueError caught)
    exit_code,      \* process exit status, Running until the process ends
    call,           \* UnitSpec: the function call under test
    ret             \* UnitSpec: its result

vars == <<pc, aoi_arg, image_a, image_b, aoi, A_clipped_arr, A_meta,
          B_clipped_arr, B_meta, shift, est_moving, progress, files,
          stage_log, no_overlap, exit_code, call, ret>>

pipeline_vars == <<pc, aoi_arg, image_a, image_b, aoi, A_clipped_arr, A_meta,
                   B_clipped_arr, B_meta, shift, est_moving, progress, files,
                   stage_log, no_overlap, exit_code>>

\* values a variable holds before it is assigned
NoArray == <<>>
NoMeta == [count |-> 0, height |-> 0, width |-> 0,
           transform |-> [a |-> 0, b |-> 0, c |-> 0, d |-> 0, e |-> 0, f |-> 0]]
NoShift == <<>>
Running == 0 - 1
NoCall == [fn |-> "none"]
NoRet == [done |-> FALSE]

(***************************************************************************)
(* Bounds                                                                  *)
(***************************************************************************)
MaxBands == 2       \* band count of a raster
MaxDim == 2         \* rows / columns of a clipped window
MaxSeed == 1        \* sample patterns of a source raster: 0 is a constant raster
MaxPattern == 6     \* sample patterns of a function argument
MaxShift == 2       \* |shift_row|, |shift_column|
MaxScale == 2       \* |a|, |e| of a transform
MaxPieces == 5      \* ';'-separated pieces of an AOI string

\* the non-empty sequences over S of length at most n
SeqsUpTo(S, n) == UNION {[1..k -> S] : k \in 1..n}

Max(x, y) == IF x >= y THEN x ELSE y
Abs(x) == IF x < 0 THEN -x ELSE x

RECURSIVE SeqMin(_)
SeqMin(s) == IF Len(s) = 1 THEN s[1]
             ELSE LET m == SeqMin(Tail(s)) IN IF s[1] <= m THEN s[1] ELSE m
RECURSIVE SeqMax(_)
SeqMax(s) == IF Len(s) = 1 THEN s[1]
             ELSE LET m == SeqMax(Tail(s)) IN IF s[1] >= m THEN s[1] ELSE m

(***************************************************************************)
(* Arrays: arr[band][row][column], 1-based; a 2-D image is img[row][col].  *)
(***************************************************************************)
Shape3(arr) == <<Len(arr), Len(arr[1]), Len(arr[1][1])>>
Shape2(img) == <<Len(img), Len(img[1])>>

\* np.zeros((count, h, w))
Zeros3(count, h, w) == [b \in 1..count |-> [r \in 1..h |-> [c \in 1..w |-> 0]]]

\* np.nanmin / np.nanmax of a 2-D band (all samples finite)
BandMin(band) == SeqMin([r \in 1..Len(band) |-> SeqMin(band[r])])
BandMax(band) == SeqMax([r \in 1..Len(band) |-> SeqMax(band[r])])

\* the samples a raster can hold: pattern `seed` at (band, row, column)
Sample(seed, b, r, c) == (seed * (37 * r + 11 * c + 5 * b) + 7) % 256
Pattern3(count, h, w, seed) ==
    [b \in 1..count |-> [r \in 1..h |-> [c \in 1..w |-> Sample(seed, b, r, c)]]]
Seeds == 0..MaxSeed
Dims == 1..MaxDim

(***************************************************************************)
(* parse_aoi (worker.py 38-45).  aoi_str.split(';') is a non-empty         *)
(* sequence of pieces; kv.split('=') is a non-empty sequence of fields,    *)
(* and the piece is the empty string exactly when its fields are <<"">>.   *)
(***************************************************************************)
\* k.strip()
Strip(k) == CASE k = " east " -> "east"
              [] k = " up"    -> "up"
              [] OTHER        -> k

\* float(v): the numerals float() accepts, anything else raises ValueError
FloatText == {"0", "1", "3", " 2 "}
Float(v) == CASE v = "0"   -> 0
              [] v = "1"   -> 1
              [] v = "3"   -> 3
              [] v = " 2 " -> 2

\* parts[k] = x
DictSet(parts, k, x) == [key \in DOMAIN parts \cup {k} |-> IF key = k THEN x ELSE parts[key]]
EmptyDict == [key \in {} |-> 0]

Raised(e) == [ok |-> FALSE, error |-> e]
Returned(x) == [ok |-> TRUE, value |-> x]

RECURSIVE parse_loop(_, _, _)
parse_loop(pieces, i, parts) ==
    IF i > Len(pieces) THEN Returned(parts)                       \* line 45
    ELSE LET kv == pieces[i] IN
         IF kv = <<"">> THEN parse_loop(pieces, i + 1, parts)      \* line 42
         ELSE IF Len(kv) # 2 THEN Raised("ValueError")             \* line 43: unpacking
         ELSE IF kv[2] \notin FloatText THEN Raised("ValueError")  \* line 44: float(v)
         ELSE parse_loop(pieces, i + 1, DictSet(parts, Strip(kv[1]), Float(kv[2])))

parse_aoi(aoi_str) == parse_loop(aoi_str, 1, EmptyDict)

AoiKeys == {"north", "south", "east", "west"}

(***************************************************************************)
(* Affine transforms: [a, b, c, d, e, f].                                  *)
(***************************************************************************)
Affine(a, b, c, d, e, f) == [a |-> a, b |-> b, c |-> c, d |-> d, e |-> e, f |-> f]

\* the transform of a window whose top-left pixel is (col_off, row_off):
\* what rasterio.mask.mask returns as out_transform with crop=True
WindowTransform(t, col_off, row_off) ==
    Affine(t.a, t.b, t.a * col_off + t.b * row_off + t.c,
           t.d, t.e, t.d * col_off + t.e * row_off + t.f)

(***************************************************************************)
(* clip_to_aoi (worker.py 74-90), after the raster is open and the bounds  *)
(* are known.  mask_out is what rasterio.mask.mask did: it returned        *)
(* (image, transform) or it raised ValueError (no overlap).                *)
(***************************************************************************)
MaskOk(image, transform) == [kind |-> "ok", image |-> image, transform |-> transform]
MaskNoOverlap == [kind |-> "ValueError"]

\* the fallback image built with one band instead of src.count bands
clip_to_aoi_one_band(src, mask_out) ==
    LET out_image == IF mask_out.kind = "ValueError" THEN Zeros3(1, 1, 1) ELSE mask_out.image
        out_transform == IF mask_out.kind = "ValueError" THEN src.transform
                         ELSE mask_out.transform
    IN  [arr  |-> out_image,
         meta |-> [count     |-> src.count,
                   height    |-> Shape3(out_image)[2],
                   width     |-> Shape3(out_image)[3],
                   transform |-> out_transform]]

clip_to_aoi(src, mask_out) ==
    LET out_image == IF mask_out.kind = "ValueError"
                     THEN Zeros3(src.count, 1, 1)                 \* line 80
                     ELSE mask_out.image
        out_transform == IF mask_out.kind = "ValueError"
                         THEN src.transform                       \* line 81
                         ELSE mask_out.transform
    IN  [arr  |-> out_image,
         meta |-> [count     |-> src.count,
                   height    |-> Shape3(out_image)[2],            \* line 86
                   width     |-> Shape3(out_image)[3],            \* line 87
                   transform |-> out_transform]]

(***************************************************************************)
(* normalize_bands (worker.py 161-170).                                    *)
(***************************************************************************)
\* astype("uint8") of a non-negative float: the fraction is dropped
Uint8(num, den) == (num \div den) % 256

normalize_band(band) ==
    LET bmin == BandMin(band)
        bmax == BandMax(band)
    IN  IF bmax > bmin
        THEN [r \in 1..Len(band) |-> [c \in 1..Len(band[r]) |->
                 Uint8(255 * (band[r][c] - bmin), bmax - bmin)]]  \* line 168
        ELSE [r \in 1..Len(band) |-> [c \in 1..Len(band[r]) |->
                 Uint8(band[r][c], 1)]]                           \* band left as it is

normalize_bands(data) == [i \in 1..Len(data) |-> normalize_band(data[i])]

(***************************************************************************)
(* apply_translation_and_write (worker.py 139-150): the new transform.     *)
(***************************************************************************)
\* world_dy computed without the sign flip of line 147
new_transform_no_flip(transform, sh) ==
    LET world_dx == sh[2] * transform.a
        world_dy == sh[1] * (-transform.e)
    IN  Affine(transform.a, transform.b, transform.c + world_dx,
               transform.d, transform.e, transform.f + world_dy)

\* the offsets taken as the new origin instead of added to the old one
new_transform_from_zero(transform, sh) ==
    LET world_dx == sh[2] * transform.a
        world_dy == (-sh[1]) * (-transform.e)
    IN  Affine(transform.a, transform.b, world_dx, transform.d, transform.e, world_dy)

new_transform(transform, sh) ==
    LET shift_y == sh[1]
        shift_x == sh[2]
        pixel_width == transform.a
        pixel_height == -transform.e
        world_dx == shift_x * pixel_width
        world_dy == (-shift_y) * pixel_height
    IN  Affine(transform.a, transform.b, transform.c + world_dx,
               transform.d, transform.e, transform.f + world_dy)

(***************************************************************************)
(* compute_translation (worker.py 99-127): the two images handed to        *)
(* phase_cross_correlation.  A normalised sample is the fraction           *)
(* <<numerator, denominator>> in lowest terms; 0.0 is <<0, 1>>.            *)
(***************************************************************************)
RECURSIVE GCD(_, _)
GCD(x, y) == IF y = 0 THEN x ELSE GCD(y, x % y)
Frac(n, d) == LET g == GCD(n, d) IN <<n \div g, d \div g>>
FZero == <<0, 1>>

\* norm(a), lines 109-114
norm(a) ==
    LET lo == BandMin(a)
        mx == BandMax(a) - lo
    IN  [r \in 1..Len(a) |-> [c \in 1..Len(a[r]) |->
            IF mx > 0 THEN Frac(a[r][c] - lo, mx) ELSE FZero]]

\* the image copied into the bottom-right corner instead of the top-left
pad_to_bottom_right(img, maxr, maxc) ==
    LET dr == maxr - Len(img)
        dc == maxc - Len(img[1])
    IN  [r \in 1..maxr |-> [c \in 1..maxc |->
            IF r > dr /\ c > dc THEN img[r - dr][c - dc] ELSE FZero]]

\* np.zeros((maxr, maxc)) with img copied into [:rows, :cols], lines 123-126
pad_to(img, maxr, maxc) ==
    [r \in 1..maxr |-> [c \in 1..maxc |->
        IF r <= Len(img) /\ c <= Len(img[1]) THEN img[r][c] ELSE FZero]]

correlation_inputs(reference_arr, moving_arr) ==
    LET refn == norm(reference_arr[1])                            \* lines 100, 115
        movn == norm(moving_arr[1])                               \* lines 104, 116
        maxr == Max(Len(refn), Len(movn))                         \* line 121
        maxc == Max(Len(refn[1]), Len(movn[1]))                   \* line 122
    IN  IF Shape2(refn) # Shape2(movn)                            \* line 119
        THEN [refn |-> pad_to(refn, maxr, maxc), movn |-> pad_to(movn, maxr, maxc),
              padded |-> TRUE]
        ELSE [refn |-> refn, movn |-> movn, padded |-> FALSE]

(***************************************************************************)
(* main (worker.py 172-243)                                                *)
(***************************************************************************)
WellFormedAoi == << <<"north", "1">>, <<"south", "0">>, <<" east ", "1">>, <<"west", "0">> >>
AoiArgs == { WellFormedAoi,
             << <<"north", "1">>, <<"south", "0">>, <<" east ", "1">> >>,
             Append(WellFormedAoi, <<" up", "3">>),
             << <<"north", "1">>, <<"south", "0">>, <<" east ", "1">>, <<"west", "abc">> >>,
             << <<"north", "1">>, <<"">>, <<"south">> >>,
             << <<"">> >> }

NorthUp == Affine(2, 0, 10, 0, -2, 20)
SouthUp == Affine(1, 0, -3, 0, 3, 5)
\* a source raster: band count, transform, and the pattern of its samples
RastersA == {[count |-> n, transform |-> NorthUp, seed |-> MaxSeed] : n \in 1..MaxBands}
RastersB == {[count |-> n, transform |-> t, seed |-> s] :
                n \in 1..MaxBands, t \in {NorthUp, SouthUp}, s \in Seeds}

\* the window shapes (rows, columns) a clip rectangle can cover
WindowShapes == {<<1, 1>>, <<2, 1>>, <<2, 2>>}

\* what rasterio.mask.mask can do on raster src: the samples of a window of
\* it whose top-left pixel is (1, 2), or ValueError when nothing overlaps
MaskOutcomes(src) ==
    {MaskOk(Pattern3(src.count, w[1], w[2], src.seed), WindowTransform(src.transform, 1, 2)) :
        w \in WindowShapes} \cup {MaskNoOverlap}

\* what phase_cross_correlation can return
Shifts == (-MaxShift..MaxShift) \X (-MaxShift..MaxShift)
RunShifts == {<<0, 0>>, <<1, -2>>, <<-2, 0>>}

\* emit_progress(p), lines 33-36: int(p) of an integer milestone
emit_progress(p) == Append(progress, p)

\* rasterio.open(path, 'w', **meta) ... dst.write(arr[i-1], i) for every band
Written(name, arr, meta) == Append(files, [name |-> name, data |-> arr, meta |-> meta])

Enter(stage) == stage_log' = Append(stage_log, stage)

Init ==
    /\ pc = "makedirs"
    /\ aoi_arg \in AoiArgs
    /\ image_a \in RastersA
    /\ image_b \in RastersB
    /\ aoi = EmptyDict
    /\ A_clipped_arr = NoArray /\ A_meta = NoMeta
    /\ B_clipped_arr = NoArray /\ B_meta = NoMeta
    /\ shift = NoShift
    /\ est_moving = NoArray
    /\ progress = <<>>
    /\ files = <<>>
    /\ stage_log = <<>>
    /\ no_overlap = {}
    /\ exit_code = Running
    /\ call = NoCall
    /\ ret = NoRet

\* line 184, outside the try: an OSError here is not caught
MakeDirs ==
    /\ pc = "makedirs"
    /\ Enter("makedirs")
    /\ \/ /\ pc' = "start"
          /\ UNCHANGED exit_code
       \/ /\ pc' = "exited"
          /\ exit_code' = 1
    /\ UNCHANGED <<aoi_arg, image_a, image_b, aoi, A_clipped_arr, A_meta, B_clipped_arr,
                   B_meta, shift, est_moving, progress, files, no_overlap, call, ret>>

\* lines 187-188
Start ==
    /\ pc = "start"
    /\ progress' = emit_progress(5)
    /\ pc' = "parse_aoi"
    /\ UNCHANGED <<aoi_arg, image_a, image_b, aoi, A_clipped_arr, A_meta, B_clipped_arr,
                   B_meta, shift, est_moving, files, stage_log, no_overlap, exit_code,
                   call, ret>>

\* line 189
ParseAoi ==
    /\ pc = "parse_aoi"
    /\ Enter("parse_aoi")
    /\ LET r == parse_aoi(aoi_arg) IN
       IF r.ok THEN aoi' = r.value /\ pc' = "clip_A"
               ELSE aoi' = aoi /\ pc' = "except"
    /\ UNCHANGED <<aoi_arg, image_a, image_b, A_clipped_arr, A_meta, B_clipped_arr,
                   B_meta, shift, est_moving, progress, files, no_overlap, exit_code,
                   call, ret>>

\* lines 191-192: clip_to_aoi(args.image_a, aoi)
ClipA ==
    /\ pc = "clip_A"
    /\ Enter("clip_A")
    /\ \/ /\ AoiKeys \subseteq DOMAIN aoi              \* lines 61-62, else KeyError
          /\ \E m \in MaskOutcomes(image_a) :
               LET r == clip_to_aoi(image_a, m) IN
               /\ A_clipped_arr' = r.arr
               /\ A_meta' = r.meta
               /\ no_overlap' = IF m.kind = "ValueError" THEN no_overlap \cup {"A"}
                                ELSE no_overlap
          /\ pc' = "write_A"
       \/ /\ ~(AoiKeys \subseteq DOMAIN aoi)           \* KeyError
          /\ pc' = "except"
          /\ UNCHANGED <<A_clipped_arr, A_meta, no_overlap>>
       \/ /\ AoiKeys \subseteq DOMAIN aoi              \* open / transform_bounds / mask raised
          /\ pc' = "except"
          /\ UNCHANGED <<A_clipped_arr, A_meta, no_overlap>>
    /\ UNCHANGED <<aoi_arg, image_a, image_b, aoi, B_clipped_arr, B_meta, shift,
                   est_moving, progress, files, exit_code, call, ret>>

\* lines 193-198
WriteA ==
    /\ pc = "write_A"
    /\ Enter("write_A")
    /\ \/ /\ files' = Written("A_clipped.tif", A_clipped_arr, A_meta)
          /\ progress' = emit_progress(25)
          /\ pc' = "footprint_B"
       \/ /\ pc' = "except"
          /\ UNCHANGED <<files, progress>>
    /\ UNCHANGED <<aoi_arg, image_a, image_b, aoi, A_clipped_arr, A_meta, B_clipped_arr,
                   B_meta, shift, est_moving, no_overlap, exit_code, call, ret>>

\* lines 201-209
FootprintB ==
    /\ pc = "footprint_B"
    /\ Enter("footprint_B")
    /\ \/ pc' = "clip_B"
       \/ pc' = "except"
    /\ UNCHANGED <<aoi_arg, image_a, image_b, aoi, A_clipped_arr, A_meta, B_clipped_arr,
                   B_meta, shift, est_moving, progress, files, no_overlap, exit_code,
                   call, ret>>

\* lines 212-213: clip_to_aoi(args.image_b, aoi, None, target_bounds=a_bounds_in_B)
ClipB ==
    /\ pc = "clip_B"
    /\ Enter("clip_B")
    /\ \/ /\ \E m \in MaskOutcomes(image_b) :
               LET r == clip_to_aoi(image_b, m) IN
               /\ B_clipped_arr' = r.arr
               /\ B_meta' = r.meta
               /\ no_overlap' = IF m.kind = "ValueError" THEN no_overlap \cup {"B"}
                                ELSE no_overlap
          /\ pc' = "write_B_initial"
       \/ /\ pc' = "except"
          /\ UNCHANGED <<B_clipped_arr, B_meta, no_overlap>>
    /\ UNCHANGED <<aoi_arg, image_a, image_b, aoi, A_clipped_arr, A_meta, shift,
                   est_moving, progress, files, exit_code, call, ret>>

\* a failed write of B_clipped_initial.tif swallowed instead of raised
WriteBInitial_swallowed ==
    /\ pc = "write_B_initial"
    /\ Enter("write_B_initial")
    /\ \/ files' = Written("B_clipped_initial.tif", B_clipped_arr, B_meta)
       \/ UNCHANGED files
    /\ progress' = emit_progress(45)
    /\ pc' = "compute_translation"
    /\ UNCHANGED <<aoi_arg, image_a, image_b, aoi, A_clipped_arr, A_meta, B_clipped_arr,
                   B_meta, shift, est_moving, no_overlap, exit_code, call, ret>>

\* lines 214-218
WriteBInitial ==
    /\ pc = "write_B_initial"
    /\ Enter("write_B_initial")
    /\ \/ /\ files' = Written("B_clipped_initial.tif", B_clipped_arr, B_meta)
          /\ progress' = emit_progress(45)
          /\ pc' = "compute_translation"
       \/ /\ pc' = "except"
          /\ UNCHANGED <<files, progress>>
    /\ UNCHANGED <<aoi_arg, image_a, image_b, aoi, A_clipped_arr, A_meta, B_clipped_arr,
                   B_meta, shift, est_moving, no_overlap, exit_code, call, ret>>

\* the estimator called on the normalised B buffer
ComputeTranslation_on_normalized ==
    /\ pc = "compute_translation"
    /\ Enter("compute_translation")
    /\ est_moving' = normalize_bands(B_clipped_arr)
    /\ \/ /\ shift' \in RunShifts
          /\ progress' = emit_progress(65)
          /\ pc' = "align_B"
       \/ /\ pc' = "except"
          /\ UNCHANGED <<shift, progress>>
    /\ UNCHANGED <<aoi_arg, image_a, image_b, aoi, A_clipped_arr, A_meta, B_clipped_arr,
                   B_meta, files, no_overlap, exit_code, call, ret>>

\* lines 221-224: compute_translation(A_clipped_arr, B_clipped_arr)
ComputeTranslation ==
    /\ pc = "compute_translation"
    /\ Enter("compute_translation")
    /\ est_moving' = B_clipped_arr
    /\ \/ /\ shift' \in RunShifts
          /\ progress' = emit_progress(65)
          /\ pc' = "align_B"
       \/ /\ pc' = "except"
          /\ UNCHANGED <<shift, progress>>
    /\ UNCHANGED <<aoi_arg, image_a, image_b, aoi, A_clipped_arr, A_meta, B_clipped_arr,
                   B_meta, files, no_overlap, exit_code, call, ret>>

\* lines 227-230: normalize_bands, then apply_translation_and_write
AlignB ==
    /\ pc = "align_B"
    /\ stage_log' = stage_log \o <<"normalize_B", "write_B_aligned">>
    /\ LET B_norm == normalize_bands(B_clipped_arr)
           out_meta == [B_meta EXCEPT !.transform = new_transform(B_meta.transform, shift)]
       IN  \/ /\ files' = Written("B_clipped_aligned.tif", B_norm, out_meta)
              /\ progress' = emit_progress(90)
              /\ pc' = "finalize"
           \/ /\ pc' = "except"
              /\ UNCHANGED <<files, progress>>
    /\ UNCHANGED <<aoi_arg, image_a, image_b, aoi, A_clipped_arr, A_meta, B_clipped_arr,
                   B_meta, shift, est_moving, no_overlap, exit_code, call, ret>>

\* the run ending without its last milestone
Finalize_no_milestone ==
    /\ pc = "finalize"
    /\ pc' = "sys_exit_0"
    /\ UNCHANGED <<aoi_arg, image_a, image_b, aoi, A_clipped_arr, A_meta, B_clipped_arr,
                   B_meta, shift, est_moving, progress, files, stage_log, no_overlap,
                   exit_code, call, ret>>

\* lines 233-234
Finalize ==
    /\ pc = "finalize"
    /\ progress' = emit_progress(100)
    /\ pc' = "sys_exit_0"
    /\ UNCHANGED <<aoi_arg, image_a, image_b, aoi, A_clipped_arr, A_meta, B_clipped_arr,
                   B_meta, shift, est_moving, files, stage_log, no_overlap, exit_code,
                   call, ret>>

\* line 236
SysExit0 ==
    /\ pc = "sys_exit_0"
    /\ exit_code' = 0
    /\ pc' = "exited"
    /\ UNCHANGED <<aoi_arg, image_a, image_b, aoi, A_clipped_arr, A_meta, B_clipped_arr,
                   B_meta, shift, est_moving, progress, files, stage_log, no_overlap,
                   call, ret>>

\* lines 238-242
Except ==
    /\ pc = "except"
    /\ progress' = emit_progress(100)
    /\ pc' = "sys_exit_1"
    /\ UNCHANGED <<aoi_arg, image_a, image_b, aoi, A_clipped_arr, A_meta, B_clipped_arr,
                   B_meta, shift, est_moving, files, stage_log, no_overlap, exit_code,
                   call, ret>>

\* line 243
SysExit1 ==
    /\ pc = "sys_exit_1"
    /\ exit_code' = 1
    /\ pc' = "exited"
    /\ UNCHANGED <<aoi_arg, image_a, image_b, aoi, A_clipped_arr, A_meta, B_clipped_arr,
                   B_meta, shift, est_moving, progress, files, stage_log, no_overlap,
                   call, ret>>

Next ==
    \/ MakeDirs \/ Start \/ ParseAoi \/ ClipA \/ WriteA \/ FootprintB \/ ClipB
    \/ WriteBInitial \/ ComputeTranslation \/ AlignB \/ Finalize \/ SysExit0
    \/ Except \/ SysExit1

Spec == Init /\ [][Next]_vars

\* one process, no blocking wait: a statement that can run does run
FairSpec == Init /\ [][Next]_vars /\ WF_vars(Next)

(***************************************************************************)
(* The functions on their own: a call drawn from a bounded set, applied.   *)
(***************************************************************************)
\* pieces an AOI string is built from: the four keys, an unexpected key, an
\* unparseable value, a piece without '=', and the empty piece
Pieces == { <<"north", "1">>, <<"south", "0">>, <<" east ", "1">>, <<"west", " 2 ">>,
            <<" up", "3">>, <<"west", "abc">>, <<"south">>, <<"">> }
AoiStrings == SeqsUpTo(Pieces, MaxPieces)

Patterns == 0..MaxPattern
Arrays == {Pattern3(n, h, w, s) : n \in 1..MaxBands, h \in Dims, w \in Dims, s \in Patterns}

Skews == {0, 1}
Origins == {-1, 0, 3}
Transforms == {Affine(a, b, c, d, e, f) :
                  a \in -MaxScale..MaxScale, e \in -MaxScale..MaxScale,
                  b \in Skews, d \in Skews, c \in Origins, f \in Origins}

Idle ==
    /\ pc = "unit"
    /\ aoi_arg = <<>> /\ aoi = EmptyDict
    /\ image_a = [count |-> 0, transform |-> NoMeta.transform, seed |-> 0]
    /\ image_b = [count |-> 0, transform |-> NoMeta.transform, seed |-> 0]
    /\ A_clipped_arr = NoArray /\ A_meta = NoMeta
    /\ B_clipped_arr = NoArray /\ B_meta = NoMeta
    /\ shift = NoShift /\ est_moving = NoArray
    /\ progress = <<>> /\ files = <<>> /\ stage_log = <<>> /\ no_overlap = {}
    /\ exit_code = Running

UnitInit ==
    /\ Idle
    /\ ret = NoRet
    /\ \/ call \in {[fn |-> "parse_aoi", arg |-> x] : x \in AoiStrings}
       \/ call \in {[fn |-> "normalize_bands", arg |-> x] : x \in Arrays}
       \/ call \in {[fn |-> "new_transform", arg |-> <<t, sh>>] : t \in Transforms, sh \in Shifts}
       \/ call \in {[fn |-> "compute_translation", arg |-> <<x, y>>] : x \in Arrays, y \in Arrays}

Result(x) == [done |-> TRUE, value |-> x]

CallParseAoi ==
    /\ call.fn = "parse_aoi" /\ ~ret.done
    /\ ret' = Result(parse_aoi(call.arg))
    /\ UNCHANGED <<pipeline_vars, call>>

CallNormalizeBands ==
    /\ call.fn = "normalize_bands" /\ ~ret.done
    /\ ret' = Result(normalize_bands(call.arg))
    /\ UNCHANGED <<pipeline_vars, call>>

CallNewTransform ==
    /\ call.fn = "new_transform" /\ ~ret.done
    /\ ret' = Result(new_transform(call.arg[1], call.arg[2]))
    /\ UNCHANGED <<pipeline_vars, call>>

CallComputeTranslation ==
    /\ call.fn = "compute_translation" /\ ~ret.done
    /\ ret' = Result(correlation_inputs(call.arg[1], call.arg[2]))
    /\ UNCHANGED <<pipeline_vars, call>>

UnitNext == CallParseAoi \/ CallNormalizeBands \/ CallNewTransform \/ CallComputeTranslation

UnitSpec == UnitInit /\ [][UnitNext]_vars

(***************************************************************************)
(* Properties of the run                                                   *)
(***************************************************************************)
Last(q) == q[Len(q)]
IsPrefix(p, q) == Len(p) <= Len(q) /\ \A i \in 1..Len(p) : p[i] = q[i]
Milestones == {5, 25, 45, 65, 90, 100}
AllMilestones == <<5, 25, 45, 65, 90, 100>>
FileNames == [i \in 1..Len(files) |-> files[i].name]
AllFiles == <<"A_clipped.tif", "B_clipped_initial.tif", "B_clipped_aligned.tif">>
Failed == pc \in {"except", "sys_exit_1"} \/ (pc = "exited" /\ exit_code # 0)

\* C1: a run that ends with a non-zero exit status, whatever stage failed
\* (the creation of the output directory included), has printed the
\* milestone 100 last.
C1_FailedRunEmits100 ==
    (pc = "exited" /\ exit_code # 0) => (progress # <<>> /\ Last(progress) = 100)

\* C2: the milestones printed so far are taken from 5, 25, 45, 65, 90, 100
\* and never decrease; the zero exit status is only set once 100 is printed,
\* and a run that ended with status 0 printed exactly 5, 25, 45, 65, 90, 100.
C2_Milestones ==
    /\ \A i \in 1..Len(progress) : progress[i] \in Milestones
    /\ \A i \in 1..Len(progress) : \A j \in i..Len(progress) : progress[i] <= progress[j]
    /\ pc = "sys_exit_0" => (progress # <<>> /\ Last(progress) = 100)
    /\ exit_code = 0 => progress = AllMilestones

C2_Witness == pc = "exited" /\ exit_code = 0 /\ progress = AllMilestones

C8_MovingIsNormalized ==
    est_moving # NoArray => est_moving = normalize_bands(B_clipped_arr)

StageOrder == <<"makedirs", "parse_aoi", "clip_A", "write_A", "footprint_B", "clip_B",
                "write_B_initial", "compute_translation", "normalize_B", "write_B_aligned">>

\* C8 amended: the stages are entered in the order of main(), each once;
\* compute_translation receives the clipped B buffer as it was written to
\* B_clipped_initial.tif, not normalised; normalize_bands runs after the shift is
\* estimated, and the aligned file holds the normalised buffer under the
\* transform moved by that shift.
C8_StageOrder ==
    /\ IsPrefix(stage_log, StageOrder)
    /\ est_moving # NoArray =>
          /\ est_moving = B_clipped_arr
          /\ Len(files) >= 2 /\ files[2].data = est_moving
    /\ Len(files) = 3 =>
          /\ shift # NoShift
          /\ files[3].data = normalize_bands(B_clipped_arr)
          /\ files[3].meta.transform = new_transform(B_meta.transform, shift)

C8_Witness ==
    /\ Len(files) = 3
    /\ est_moving # normalize_bands(est_moving)
    /\ files[3].data # files[2].data

\* C9: the files written so far are the first of A_clipped, B_clipped_initial,
\* B_clipped_aligned, in that order, each once; a run that ended with status 0
\* wrote all three, and a run that ended without all three ended non-zero.
C9_AllOrNothing ==
    /\ IsPrefix(FileNames, AllFiles)
    /\ exit_code = 0 => FileNames = AllFiles
    /\ (pc = "exited" /\ FileNames # AllFiles) => exit_code = 1

C9_Witness == pc = "exited" /\ exit_code = 1 /\ Len(files) = 2 /\ Last(progress) = 100

(***************************************************************************)
(* Properties of the functions                                             *)
(***************************************************************************)
Called(fn) == call.fn = fn /\ ret.done

\* C4: whenever parse_aoi returns instead of raising, what it returns has
\* exactly the keys north, south, east and west.
C4_ParsedHasExactlyTheKeys ==
    (Called("parse_aoi") /\ ret.value.ok) => DOMAIN ret.value.value = AoiKeys

\* C5 as stated: c' = c + shift_column * a and f' = f - shift_row * |e|,
\* whatever the sign of e; a, b, d, e unchanged.
C5_MagnitudeOfE ==
    Called("new_transform") =>
        LET t == call.arg[1]
            sh == call.arg[2]
        IN  /\ ret.value.c = t.c + sh[2] * t.a
            /\ ret.value.f = t.f - sh[1] * Abs(t.e)
            /\ ret.value.a = t.a /\ ret.value.b = t.b
            /\ ret.value.d = t.d /\ ret.value.e = t.e

\* C5 amended: c' = c + shift_column * a and f' = f + shift_row * e, which is
\* f - shift_row * |e| when e <= 0; a, b, d, e unchanged.
C5_SignedE ==
    Called("new_transform") =>
        LET t == call.arg[1]
            sh == call.arg[2]
        IN  /\ ret.value.c = t.c + sh[2] * t.a
            /\ ret.value.f = t.f + sh[1] * t.e
            /\ t.e <= 0 => ret.value.f = t.f - sh[1] * Abs(t.e)
            /\ ret.value.a = t.a /\ ret.value.b = t.b
            /\ ret.value.d = t.d /\ ret.value.e = t.e

C5_Witness ==
    /\ Called("new_transform")
    /\ call.arg[1].e > 0 /\ call.arg[2][1] # 0
    /\ ret.value.f # call.arg[1].f - call.arg[2][1] * Abs(call.arg[1].e)

\* C6: with shift (0, 0) the transform returned equals the transform given,
\* in all six coefficients.
C6_ZeroShiftIdentity ==
    (Called("new_transform") /\ call.arg[2] = <<0, 0>>) => ret.value = call.arg[1]

C6_Witness ==
    /\ Called("new_transform") /\ call.arg[2] = <<0, 0>>
    /\ call.arg[1].c # 0 /\ call.arg[1].f # 0 /\ call.arg[1].e > 0 /\ call.arg[1].b # 0

\* C7: every value normalize_bands returns is in 0..255; in a band that is not
\* constant the minimum becomes 0 and the maximum 255, and a constant band
\* becomes all 0.
C7_ConstantBandIsZero ==
    Called("normalize_bands") =>
        \A i \in 1..Len(call.arg) :
            LET band == call.arg[i]
                out == ret.value[i]
            IN  \A r \in 1..Len(band) : \A c \in 1..Len(band[r]) :
                    /\ out[r][c] \in 0..255
                    /\ BandMax(band) = BandMin(band) => out[r][c] = 0
                    /\ (BandMax(band) > BandMin(band) /\ band[r][c] = BandMin(band))
                          => out[r][c] = 0
                    /\ (BandMax(band) > BandMin(band) /\ band[r][c] = BandMax(band))
                          => out[r][c] = 255

\* C10: when the two normalised images differ in shape, both images handed to
\* the correlation have shape (max rows, max columns), hold the normalised
\* image at unchanged indices in the top-left corner and 0 elsewhere; when the
\* shapes agree, both are handed over as they are.
C10_Padding ==
    Called("compute_translation") =>
        LET ref == norm(call.arg[1][1])
            mov == norm(call.arg[2][1])
            maxr == Max(Len(ref), Len(mov))
            maxc == Max(Len(ref[1]), Len(mov[1]))
            TopLeft(out, img) ==
                /\ Shape2(out) = <<maxr, maxc>>
                /\ \A r \in 1..maxr : \A c \in 1..maxc :
                      out[r][c] = IF r <= Len(img) /\ c <= Len(img[1]) THEN img[r][c]
                                  ELSE FZero
        IN  IF Shape2(ref) # Shape2(mov)
            THEN TopLeft(ret.value.refn, ref) /\ TopLeft(ret.value.movn, mov)
            ELSE ret.value.refn = ref /\ ret.value.movn = mov /\ ~ret.value.padded

C10_Witness ==
    /\ Called("compute_translation")
    /\ Shape2(call.arg[1][1]) = <<1, 2>> /\ Shape2(call.arg[2][1]) = <<2, 1>>
    /\ ret.value.padded
    /\ ret.value.refn[1][2] # FZero /\ ret.value.refn[2][2] = FZero
    /\ ret.value.movn[2][1] # FZero

====
